---- MODULE Spec2Model ----
(***************************************************************************)
(* The label commands of harbor-go-client (api/labels.go): labels_list,    *)
(* label_create, label_del_by_id, label_get_by_id and label_update.        *)
(* One process runs one command: the flag parser binds the command line to *)
(* the command's package-level record and calls its Execute, which calls   *)
(* the handler; the handler builds the URL, loads the session token and    *)
(* dispatches one HTTP request.  Strings are TLA+ strings, built and taken *)
(* apart character by character.                                          *)
(***************************************************************************)
EXTENDS Integers, Sequences, FiniteSets, TLC

VARIABLES
    cookieFile,   \* the session file: <<>> when unreadable, <<token>> otherwise
    phase,        \* "start" | "parsed" | "done": where the process is
    cmd,          \* the subcommand of this process ("" before parsing)
    args,         \* the flags of the command line: flag name -> <<>> | <<text>>
    labelslist,   \* var labelslist labelsList
    labelcreate,  \* var labelcreate labelCreate
    labeldel,     \* var labeldel labelDel
    labelget,     \* var labelget labelGet
    labelupdate,  \* var labelupdate labelUpdate
    now,          \* what time.Now() returned in this process: <<>> | <<instant>>
    c,            \* what utils.CookieLoad() returned in this process: <<>> | <<[err, BeegosessionID]>>
    wire,         \* the HTTP requests this process has dispatched, in order
    out,          \* the lines this process has printed, in order
    exit          \* "" | "usage" | "returned": how the process ended

vars == <<cookieFile, phase, cmd, args, labelslist, labelcreate, labeldel,
          labelget, labelupdate, now, c, wire, out, exit>>

----------------------------------------------------------------------------
(* Bounds of the model. *)

\* The largest integer given on a command line.
MaxArgInt == 105

\* The number of distinct session tokens a login may have stored.
MaxSessions == 2

----------------------------------------------------------------------------
(* Characters and decimal numerals. *)

Digits == "0123456789"

DigitChar(d) == SubSeq(Digits, d + 1, d + 1)

IsDigit(ch) == \E d \in 0..9 : DigitChar(d) = ch

DigitVal(ch) == CHOOSE d \in 0..9 : DigitChar(d) = ch

RECURSIVE FormatUint(_)
FormatUint(n) ==
    IF n < 10 THEN DigitChar(n)
    ELSE FormatUint(n \div 10) \o DigitChar(n % 10)

\* strconv.Itoa: base 10, a leading "-" for a negative number, no padding.
Itoa(i) == IF i < 0 THEN "-" \o FormatUint(0 - i) ELSE FormatUint(i)

RECURSIVE AllDigits(_)
AllDigits(s) == s = "" \/ (IsDigit(Head(s)) /\ AllDigits(Tail(s)))

RECURSIVE DigitsValue(_, _)
DigitsValue(s, acc) ==
    IF s = "" THEN acc
    ELSE DigitsValue(Tail(s), acc * 10 + DigitVal(Head(s)))

\* strconv.ParseInt(s, 10, _), which the flag parser applies to the text of an
\* int flag and to the text of its default tag: an optional sign, then one or
\* more decimal digits; anything else is a syntax error.
ParseInt(s) ==
    LET signed == s # "" /\ Head(s) \in {"+", "-"}
        body   == IF signed THEN Tail(s) ELSE s
    IN  IF body = "" \/ ~AllDigits(body)
        THEN [err |-> TRUE, val |-> 0]
        ELSE [err |-> FALSE,
              val |-> IF signed /\ Head(s) = "-"
                      THEN 0 - DigitsValue(body, 0)
                      ELSE DigitsValue(body, 0)]

----------------------------------------------------------------------------
(* The parameter records and their flags (the struct tags).                *)
(* type is the Go type of the field; default is <<>> when the field has no *)
(* default tag and <<text>> when it has one; json is <<>> when the field   *)
(* has no json tag.                                                        *)

Flag(long, field, type, required, default, json) ==
    [long |-> long, field |-> field, type |-> type, required |-> required,
     default |-> default, json |-> json]

\* labelsList with the required tag left off scope.
labelsListFlagsScopeOptional == <<
    Flag("name",       "Name",      "string", FALSE, <<"">>,   <<>>),
    Flag("scope",      "Scope",     "string", FALSE, <<>>,     <<>>),
    Flag("project_id", "ProjectID", "int",    FALSE, <<"0">>,  <<>>),
    Flag("page",       "Page",      "int",    FALSE, <<"1">>,  <<>>),
    Flag("page_size",  "PageSize",  "int",    FALSE, <<"10">>, <<>>) >>

labelsListFlags == <<
    Flag("name",       "Name",      "string", FALSE, <<"">>,   <<>>),
    Flag("scope",      "Scope",     "string", TRUE,  <<>>,     <<>>),
    Flag("project_id", "ProjectID", "int",    FALSE, <<"0">>,  <<>>),
    Flag("page",       "Page",      "int",    FALSE, <<"1">>,  <<>>),
    Flag("page_size",  "PageSize",  "int",    FALSE, <<"10">>, <<>>) >>

\* labelCreate with the json tag of ProjectID misspelled.
labelCreateFlagsMisspelledTag == <<
    Flag("id",            "ID",           "int",    FALSE, <<"0">>,       <<"id">>),
    Flag("name",          "Name",         "string", TRUE,  <<>>,          <<"name">>),
    Flag("description",   "Description",  "string", TRUE,  <<>>,          <<"description">>),
    Flag("color",         "Color",        "string", FALSE, <<"#000000">>, <<"color">>),
    Flag("scope",         "Scope",        "string", FALSE, <<"g">>,       <<"scope">>),
    Flag("project_id",    "ProjectID",    "int",    FALSE, <<"0">>,       <<"projectid">>),
    Flag("creation_time", "CreationTime", "string", FALSE, <<"">>,        <<"creation_time">>),
    Flag("update_time",   "UpdateTime",   "string", FALSE, <<"">>,        <<"update_time">>),
    Flag("deleted",       "Deleted",      "bool",   FALSE, <<>>,          <<"deleted">>) >>

labelCreateFlags == <<
    Flag("id",            "ID",           "int",    FALSE, <<"0">>,       <<"id">>),
    Flag("name",          "Name",         "string", TRUE,  <<>>,          <<"name">>),
    Flag("description",   "Description",  "string", TRUE,  <<>>,          <<"description">>),
    Flag("color",         "Color",        "string", FALSE, <<"#000000">>, <<"color">>),
    Flag("scope",         "Scope",        "string", FALSE, <<"g">>,       <<"scope">>),
    Flag("project_id",    "ProjectID",    "int",    FALSE, <<"0">>,       <<"project_id">>),
    Flag("creation_time", "CreationTime", "string", FALSE, <<"">>,        <<"creation_time">>),
    Flag("update_time",   "UpdateTime",   "string", FALSE, <<"">>,        <<"update_time">>),
    Flag("deleted",       "Deleted",      "bool",   FALSE, <<>>,          <<"deleted">>) >>

labelDelFlags == <<
    Flag("id", "ID", "int", TRUE, <<>>, <<>>) >>

labelGetFlags == <<
    Flag("id", "ID", "int", TRUE, <<>>, <<>>) >>

labelUpdateFlags == <<
    Flag("id",          "ID",          "int",    TRUE,  <<>>,          <<"id">>),
    Flag("name",        "Name",        "string", TRUE,  <<>>,          <<"name">>),
    Flag("description", "Description", "string", TRUE,  <<>>,          <<"description">>),
    Flag("color",       "Color",       "string", FALSE, <<"#000000">>, <<"color">>),
    Flag("scope",       "Scope",       "string", FALSE, <<"g">>,       <<"scope">>),
    Flag("project_id",  "ProjectID",   "int",    FALSE, <<"0">>,       <<"project_id">>),
    Flag("deleted",     "Deleted",     "bool",   FALSE, <<>>,          <<"deleted">>) >>

\* init(): the five subcommands registered with the parser, each with the
\* record its flags are bound to.
Commands == {"labels_list", "label_create", "label_del_by_id",
             "label_get_by_id", "label_update"}

FlagsOf(name) ==
    CASE name = "labels_list"     -> labelsListFlags
      [] name = "label_create"    -> labelCreateFlags
      [] name = "label_del_by_id" -> labelDelFlags
      [] name = "label_get_by_id" -> labelGetFlags
      [] name = "label_update"    -> labelUpdateFlags

----------------------------------------------------------------------------
(* The flag parser (utils.Parser): binding a command line to a record.     *)

\* The Go zero value of a field.
ZeroValue(type) ==
    CASE type = "string" -> ""
      [] type = "int"    -> 0
      [] type = "bool"   -> FALSE

\* The zero-valued record of a command: its package-level variable before
\* any flag is bound.
FlagOfField(flags, f) == flags[CHOOSE i \in DOMAIN flags : flags[i].field = f]

FieldsOf(flags) == {flags[i].field : i \in DOMAIN flags}

ZeroRecord(flags) ==
    [f \in FieldsOf(flags) |-> ZeroValue(FlagOfField(flags, f).type)]

\* The text of a flag or of a default tag converted to the field's type.
\* A bool flag takes no argument: given means true.
Convert(type, text) ==
    CASE type = "string" -> text
      [] type = "int"    -> ParseInt(text).val
      [] type = "bool"   -> TRUE

Convertible(type, text) == type = "int" => ~ParseInt(text).err

\* Binding the command line a (flag name -> <<>> | <<text>>) to the record
\* of a command: a given flag sets its field to the converted text, an
\* absent one leaves the converted default tag, or the zero value when the
\* field has none.  err is "syntax" when a text does not convert,
\* "required" when a flag tagged required is absent, "" otherwise.
Bind(flags, a) ==
    LET given(fl) == a[fl.long] # <<>>
        value(fl) ==
            IF given(fl) THEN Convert(fl.type, a[fl.long][1])
            ELSE IF fl.default # <<>> THEN Convert(fl.type, fl.default[1])
            ELSE ZeroValue(fl.type)
    IN  [err |->
            IF \E i \in DOMAIN flags :
                  given(flags[i]) /\ ~Convertible(flags[i].type, a[flags[i].long][1])
            THEN "syntax"
            ELSE IF \E i \in DOMAIN flags : flags[i].required /\ ~given(flags[i])
            THEN "required"
            ELSE "",
         rec |-> [f \in FieldsOf(flags) |-> value(FlagOfField(flags, f))]]

----------------------------------------------------------------------------
(* The command lines the model runs.                                       *)

Opt(S) == {<<>>} \cup {<<t>> : t \in S}

BigArg == Itoa(MaxArgInt)

CommandLines(name) ==
    CASE name = "labels_list" ->
            [name       : Opt({"a&b"}),
             scope      : Opt({"g", "p", "x", ""}),
             project_id : Opt({"0", "007"}),
             page       : Opt({"2", "-1"}),
             page_size  : Opt({"5", BigArg, "x"})]
      [] name = "label_create" ->
            [id            : Opt({BigArg}),
             name          : Opt({"bug"}),
             description   : Opt({"a \"b\" \\ <c> & d"}),
             color         : Opt({"#A9B6BE"}),
             scope         : Opt({"p", "x"}),
             project_id    : Opt({"7"}),
             creation_time : Opt({"2018-01-01T00:00:00Z"}),
             update_time   : Opt({"", "2018-02-02T12:30:00Z"}),
             deleted       : Opt({"true"})]
      [] name = "label_del_by_id" ->
            [id : Opt({"0", "007", BigArg, "-1", "x"})]
      [] name = "label_get_by_id" ->
            [id : Opt({"0", "007", BigArg, "-1", "x"})]
      [] name = "label_update" ->
            [id          : Opt({BigArg, "x"}),
             name        : Opt({"bug"}),
             description : Opt({"a \"b\" \\ <c> & d"}),
             color       : Opt({"#A9B6BE"}),
             scope       : Opt({"p", "x"}),
             project_id  : Opt({"7"}),
             deleted     : Opt({"true"})]

----------------------------------------------------------------------------
(* encoding/json, as json.Marshal applies it to a parameter record.        *)

Quote == "\""

Backslash == "\\"

\* One character of a string inside a JSON string literal: the quote and the
\* backslash are backslash-escaped, and <, > and & are written as \u escapes
\* (Marshal escapes HTML characters).
EscapeChar(ch) ==
    CASE ch = Quote     -> Backslash \o Quote
      [] ch = Backslash -> Backslash \o Backslash
      [] ch = "<"       -> Backslash \o "u003c"
      [] ch = ">"       -> Backslash \o "u003e"
      [] ch = "&"       -> Backslash \o "u0026"
      [] OTHER          -> ch

RECURSIVE EscapeString(_)
EscapeString(s) ==
    IF s = "" THEN "" ELSE EscapeChar(Head(s)) \o EscapeString(Tail(s))

\* The JSON text of one field value.
EncodeValue(type, v) ==
    CASE type = "string" -> Quote \o EscapeString(v) \o Quote
      [] type = "int"    -> Itoa(v)
      [] type = "bool"   -> IF v THEN "true" ELSE "false"

RECURSIVE EncodeFields(_, _, _)
EncodeFields(flags, v, first) ==
    IF flags = <<>> THEN ""
    ELSE LET fl == Head(flags)
         IN  (IF first THEN "" ELSE ",")
             \o Quote \o fl.json[1] \o Quote \o ":"
             \o EncodeValue(fl.type, v[fl.field])
             \o EncodeFields(Tail(flags), v, FALSE)

\* json.Marshal(&record): the fields with a json tag, in declaration order.
\* A record of strings, ints and bools always marshals: err is FALSE.
Marshal(flags, v) ==
    [err |-> FALSE,
     t   |-> "{" \o EncodeFields(SelectSeq(flags, LAMBDA fl : fl.json # <<>>), v, TRUE) \o "}"]

----------------------------------------------------------------------------
(* time: time.Now().Format("2006-01-02T15:04:05Z").                        *)

\* An instant is <<year, month, day, hour, minute, second>>.
Instants == { <<2018, 9, 5, 7, 4, 3>>, <<2026, 11, 23, 15, 40, 59>> }

\* n in decimal, zero-padded on the left to width w.
RECURSIVE Pad(_, _)
Pad(n, w) == IF w = 0 THEN "" ELSE Pad(n \div 10, w - 1) \o DigitChar(n % 10)

\* The layout's elements 2006, 01, 02, 15, 04, 05 are the padded year,
\* month, day, hour, minute and second; "-", "T", ":" and the final "Z" are
\* literal text.
Format(t) ==
    Pad(t[1], 4) \o "-" \o Pad(t[2], 2) \o "-" \o Pad(t[3], 2) \o "T"
    \o Pad(t[4], 2) \o ":" \o Pad(t[5], 2) \o ":" \o Pad(t[6], 2) \o "Z"

----------------------------------------------------------------------------
(* The utils package as the handlers use it: the URL builder, the session  *)
(* store and the HTTP dispatcher.                                          *)

\* utils.URLGen: the configured registry address followed by the endpoint path.
URLGen(path) == "https://localhost" \o path

SessionTokens == {"sid" \o Itoa(i) : i \in 1..MaxSessions}

CookieFiles == {<<>>} \cup {<<tok>> : tok \in SessionTokens}

\* utils.CookieLoad: reads the session file; err is <<>> for nil.
CookieLoad ==
    IF cookieFile = <<>>
    THEN [c |-> [BeegosessionID |-> ""], err |-> <<"open .cookie.yaml: no such file or directory">>]
    ELSE [c |-> [BeegosessionID |-> cookieFile[1]], err |-> <<>>]

\* utils.Request.Get/Post/Put/Delete(targetURL): a fresh request.
NewRequest(method, targetURL) ==
    [method |-> method, url |-> targetURL, header |-> <<>>, body |-> <<>>]

\* .Set(name, value)
Set(req, name, value) == [req EXCEPT !.header = Append(@, <<name, value>>)]

\* .Send(content)
Send(req, content) == [req EXCEPT !.body = Append(@, content)]

\* What comes back from the server: a 2xx response, a non-2xx response or a
\* transport error.
Responses ==
    { [errs |-> <<>>, status |-> "200 OK"],
      [errs |-> <<>>, status |-> "404 Not Found"],
      [errs |-> <<"dial tcp: connection refused">>, status |-> ""] }

\* utils.PrintStatus: the line reporting the result to the operator.
PrintStatus(resp) ==
    IF resp.errs # <<>> THEN "<== Error: " \o resp.errs[1]
    ELSE "<== Rsp Status: " \o resp.status

\* .End(utils.PrintStatus): the request goes out once, the call waits for
\* the result and the callback prints it.  printed is the output so far.
End(req, printed) ==
    \E resp \in Responses :
        /\ wire' = Append(wire, req)
        /\ out'  = Append(printed, PrintStatus(resp))

----------------------------------------------------------------------------
(* The handlers.                                                           *)

\* GetLabels with page written before project_id in the query string.
GetLabelsPageBeforeProject(baseURL) ==
    LET targetURL == baseURL \o "?scope=" \o labelslist.Scope
                     \o "&name=" \o labelslist.Name
                     \o "&page=" \o Itoa(labelslist.Page)
                     \o "&project_id=" \o Itoa(labelslist.ProjectID)
                     \o "&page_size=" \o Itoa(labelslist.PageSize)
        printed   == Append(out, "==> GET " \o targetURL)
        load      == CookieLoad
    IN  /\ c' = <<load>>
        /\ IF load.err # <<>>
           THEN /\ out' = Append(printed, "Error: " \o load.err[1])
                /\ wire' = wire
           ELSE End(Set(NewRequest("GET", targetURL), "Cookie",
                        "harbor-lang=zh-cn; beegosessionID=" \o load.c.BeegosessionID),
                    printed)
        /\ UNCHANGED <<cookieFile, labelslist, labelcreate, labeldel, labelget,
                       labelupdate, now>>

\* GetLabels storing an empty session after a response, as a logout would.
GetLabelsClearingSession(baseURL) ==
    LET targetURL == baseURL \o "?scope=" \o labelslist.Scope
                     \o "&name=" \o labelslist.Name
                     \o "&project_id=" \o Itoa(labelslist.ProjectID)
                     \o "&page=" \o Itoa(labelslist.Page)
                     \o "&page_size=" \o Itoa(labelslist.PageSize)
        printed   == Append(out, "==> GET " \o targetURL)
        load      == CookieLoad
    IN  /\ c' = <<load>>
        /\ IF load.err # <<>>
           THEN /\ out' = Append(printed, "Error: " \o load.err[1])
                /\ wire' = wire
                /\ cookieFile' = cookieFile
           ELSE /\ End(Set(NewRequest("GET", targetURL), "Cookie",
                           "harbor-lang=zh-cn; beegosessionID=" \o load.c.BeegosessionID),
                       printed)
                /\ cookieFile' = <<>>
        /\ UNCHANGED <<labelslist, labelcreate, labeldel, labelget, labelupdate, now>>

\* GetLabels let user list labels by name, scope and project_id
GetLabels(baseURL) ==
    LET targetURL == baseURL \o "?scope=" \o labelslist.Scope
                     \o "&name=" \o labelslist.Name
                     \o "&project_id=" \o Itoa(labelslist.ProjectID)
                     \o "&page=" \o Itoa(labelslist.Page)
                     \o "&page_size=" \o Itoa(labelslist.PageSize)
        printed   == Append(out, "==> GET " \o targetURL)
        load      == CookieLoad
    IN  /\ c' = <<load>>
        /\ IF load.err # <<>>
           THEN /\ out' = Append(printed, "Error: " \o load.err[1])
                /\ wire' = wire
           ELSE End(Set(NewRequest("GET", targetURL), "Cookie",
                        "harbor-lang=zh-cn; beegosessionID=" \o load.c.BeegosessionID),
                    printed)
        /\ UNCHANGED <<cookieFile, labelslist, labelcreate, labeldel, labelget,
                       labelupdate, now>>

\* PostLabelCreate defaulting the times only when both are empty.
PostLabelCreateBothEmpty(baseURL) ==
    \E instant \in Instants :
        LET defaulted == labelcreate.CreationTime = "" /\ labelcreate.UpdateTime = ""
            record    == IF defaulted
                         THEN [labelcreate EXCEPT !.CreationTime = Format(instant),
                                                  !.UpdateTime = Format(instant)]
                         ELSE labelcreate
            targetURL == baseURL
            printed   == Append(out, "==> POST " \o targetURL)
            load      == CookieLoad
            m         == Marshal(labelCreateFlags, record)
        IN  /\ now' = IF defaulted THEN <<instant>> ELSE now
            /\ labelcreate' = record
            /\ c' = <<load>>
            /\ IF load.err # <<>>
               THEN /\ out' = Append(printed, "Error: " \o load.err[1])
                    /\ wire' = wire
               ELSE IF m.err
               THEN /\ out' = Append(printed, "error: json")
                    /\ wire' = wire
               ELSE End(Send(Set(NewRequest("POST", targetURL), "Cookie",
                                 "harbor-lang=zh-cn; beegosessionID=" \o load.c.BeegosessionID),
                             m.t),
                        Append(printed, "==> label add: " \o m.t))
            /\ UNCHANGED <<cookieFile, labelslist, labeldel, labelget, labelupdate>>

\* PostLabelCreate sending the request again when the first result is an error.
PostLabelCreateRetrying(baseURL) ==
    \E instant \in Instants :
        LET defaulted == labelcreate.CreationTime = "" \/ labelcreate.UpdateTime = ""
            record    == IF defaulted
                         THEN [labelcreate EXCEPT !.CreationTime = Format(instant),
                                                  !.UpdateTime = Format(instant)]
                         ELSE labelcreate
            targetURL == baseURL
            printed   == Append(out, "==> POST " \o targetURL)
            load      == CookieLoad
            m         == Marshal(labelCreateFlags, record)
            req       == Send(Set(NewRequest("POST", targetURL), "Cookie",
                                  "harbor-lang=zh-cn; beegosessionID=" \o load.c.BeegosessionID),
                              m.t)
        IN  /\ now' = IF defaulted THEN <<instant>> ELSE now
            /\ labelcreate' = record
            /\ c' = <<load>>
            /\ IF load.err # <<>>
               THEN /\ out' = Append(printed, "Error: " \o load.err[1])
                    /\ wire' = wire
               ELSE \E first \in Responses, second \in Responses :
                    IF first.errs = <<>> /\ first.status = "200 OK"
                    THEN /\ wire' = Append(wire, req)
                         /\ out' = Append(Append(printed, "==> label add: " \o m.t),
                                          PrintStatus(first))
                    ELSE /\ wire' = Append(Append(wire, req), req)
                         /\ out' = Append(Append(printed, "==> label add: " \o m.t),
                                          PrintStatus(second))
            /\ UNCHANGED <<cookieFile, labelslist, labeldel, labelget, labelupdate>>

\* PostLabelCreate let user creates a label.
PostLabelCreate(baseURL) ==
    \E instant \in Instants :
        LET defaulted == labelcreate.CreationTime = "" \/ labelcreate.UpdateTime = ""
            record    == IF defaulted
                         THEN [labelcreate EXCEPT !.CreationTime = Format(instant),
                                                  !.UpdateTime = Format(instant)]
                         ELSE labelcreate
            targetURL == baseURL
            printed   == Append(out, "==> POST " \o targetURL)
            load      == CookieLoad
            m         == Marshal(labelCreateFlags, record)
        IN  /\ now' = IF defaulted THEN <<instant>> ELSE now
            /\ labelcreate' = record
            /\ c' = <<load>>
            /\ IF load.err # <<>>
               THEN /\ out' = Append(printed, "Error: " \o load.err[1])
                    /\ wire' = wire
               ELSE IF m.err
               THEN /\ out' = Append(printed, "error: json")
                    /\ wire' = wire
               ELSE End(Send(Set(NewRequest("POST", targetURL), "Cookie",
                                 "harbor-lang=zh-cn; beegosessionID=" \o load.c.BeegosessionID),
                             m.t),
                        Append(printed, "==> label add: " \o m.t))
            /\ UNCHANGED <<cookieFile, labelslist, labeldel, labelget, labelupdate>>

\* DeleteLabel going on to the request when the session load failed.
DeleteLabelIgnoringLoadError(baseURL) ==
    LET targetURL == baseURL \o "/" \o Itoa(labeldel.ID)
        printed   == Append(out, "==> DELETE " \o targetURL)
        load      == CookieLoad
    IN  /\ c' = <<load>>
        /\ End(Set(NewRequest("DELETE", targetURL), "Cookie",
                   "harbor-lang=zh-cn; beegosessionID=" \o load.c.BeegosessionID),
               IF load.err # <<>>
               THEN Append(printed, "Error: " \o load.err[1])
               ELSE printed)
        /\ UNCHANGED <<cookieFile, labelslist, labelcreate, labeldel, labelget,
                       labelupdate, now>>

\* DeleteLabel deletes the label specified by ID.
DeleteLabel(baseURL) ==
    LET targetURL == baseURL \o "/" \o Itoa(labeldel.ID)
        printed   == Append(out, "==> DELETE " \o targetURL)
        load      == CookieLoad
    IN  /\ c' = <<load>>
        /\ IF load.err # <<>>
           THEN /\ out' = Append(printed, "Error: " \o load.err[1])
                /\ wire' = wire
           ELSE End(Set(NewRequest("DELETE", targetURL), "Cookie",
                        "harbor-lang=zh-cn; beegosessionID=" \o load.c.BeegosessionID),
                    printed)
        /\ UNCHANGED <<cookieFile, labelslist, labelcreate, labeldel, labelget,
                       labelupdate, now>>

\* GetLabel taking the id from the delete command's record.
GetLabelByDelID(baseURL) ==
    LET targetURL == baseURL \o "/" \o Itoa(labeldel.ID)
        printed   == Append(out, "==> GET " \o targetURL)
        load      == CookieLoad
    IN  /\ c' = <<load>>
        /\ IF load.err # <<>>
           THEN /\ out' = Append(printed, "Error: " \o load.err[1])
                /\ wire' = wire
           ELSE End(Set(NewRequest("GET", targetURL), "Cookie",
                        "harbor-lang=zh-cn; beegosessionID=" \o load.c.BeegosessionID),
                    printed)
        /\ UNCHANGED <<cookieFile, labelslist, labelcreate, labeldel, labelget,
                       labelupdate, now>>

\* GetLabel gets the label specified by ID.
GetLabel(baseURL) ==
    LET targetURL == baseURL \o "/" \o Itoa(labelget.ID)
        printed   == Append(out, "==> GET " \o targetURL)
        load      == CookieLoad
    IN  /\ c' = <<load>>
        /\ IF load.err # <<>>
           THEN /\ out' = Append(printed, "Error: " \o load.err[1])
                /\ wire' = wire
           ELSE End(Set(NewRequest("GET", targetURL), "Cookie",
                        "harbor-lang=zh-cn; beegosessionID=" \o load.c.BeegosessionID),
                    printed)
        /\ UNCHANGED <<cookieFile, labelslist, labelcreate, labeldel, labelget,
                       labelupdate, now>>

\* PutLabelUpdate without the Cookie header.
PutLabelUpdateNoCookie(baseURL) ==
    LET targetURL == baseURL \o "/" \o Itoa(labelupdate.ID)
        printed   == Append(out, "==> PUT " \o targetURL)
        load      == CookieLoad
        m         == Marshal(labelUpdateFlags, labelupdate)
    IN  /\ c' = <<load>>
        /\ IF load.err # <<>>
           THEN /\ out' = Append(printed, "Error: " \o load.err[1])
                /\ wire' = wire
           ELSE IF m.err
           THEN /\ out' = Append(printed, "error: json")
                /\ wire' = wire
           ELSE End(Send(Set(NewRequest("PUT", targetURL),
                             "Content-Type", "application/json"),
                         m.t),
                    Append(printed, "==> label add: " \o m.t))
        /\ UNCHANGED <<cookieFile, labelslist, labelcreate, labeldel, labelget,
                       labelupdate, now>>

\* PutLabelUpdate let user update label properties.
PutLabelUpdate(baseURL) ==
    LET targetURL == baseURL \o "/" \o Itoa(labelupdate.ID)
        printed   == Append(out, "==> PUT " \o targetURL)
        load      == CookieLoad
        m         == Marshal(labelUpdateFlags, labelupdate)
    IN  /\ c' = <<load>>
        /\ IF load.err # <<>>
           THEN /\ out' = Append(printed, "Error: " \o load.err[1])
                /\ wire' = wire
           ELSE IF m.err
           THEN /\ out' = Append(printed, "error: json")
                /\ wire' = wire
           ELSE End(Send(Set(Set(NewRequest("PUT", targetURL), "Cookie",
                                 "harbor-lang=zh-cn; beegosessionID=" \o load.c.BeegosessionID),
                             "Content-Type", "application/json"),
                         m.t),
                    Append(printed, "==> label add: " \o m.t))
        /\ UNCHANGED <<cookieFile, labelslist, labelcreate, labeldel, labelget,
                       labelupdate, now>>

----------------------------------------------------------------------------
(* The process: parse the command line, execute the command, exit.         *)

Init ==
    /\ cookieFile \in CookieFiles
    /\ phase = "start"
    /\ cmd = ""
    /\ args = <<>>
    /\ labelslist  = ZeroRecord(labelsListFlags)
    /\ labelcreate = ZeroRecord(labelCreateFlags)
    /\ labeldel    = ZeroRecord(labelDelFlags)
    /\ labelget    = ZeroRecord(labelGetFlags)
    /\ labelupdate = ZeroRecord(labelUpdateFlags)
    /\ now = <<>>
    /\ c = <<>>
    /\ wire = <<>>
    /\ out = <<>>
    /\ exit = ""

\* utils.Parser parses the command line of a registered subcommand.  When a
\* text does not convert or a required flag is absent the parser reports the
\* error and the command's Execute is never called; otherwise the command's
\* record holds the flags and their defaults.
ParseArgs ==
    /\ phase = "start"
    /\ \E name \in Commands : \E a \in CommandLines(name) :
        LET b == Bind(FlagsOf(name), a)
            bound(n, old) == IF b.err = "" /\ name = n THEN b.rec ELSE old
        IN  /\ cmd' = name
            /\ args' = a
            /\ labelslist'  = bound("labels_list", labelslist)
            /\ labelcreate' = bound("label_create", labelcreate)
            /\ labeldel'    = bound("label_del_by_id", labeldel)
            /\ labelget'    = bound("label_get_by_id", labelget)
            /\ labelupdate' = bound("label_update", labelupdate)
            /\ phase' = IF b.err = "" THEN "parsed" ELSE "done"
            /\ exit'  = IF b.err = "" THEN "" ELSE "usage"
            /\ out'   = IF b.err = "" THEN out ELSE Append(out, "usage: " \o b.err)
    /\ UNCHANGED <<cookieFile, now, c, wire>>

\* func (x *labelsList) Execute(args []string) error
labelsListExecute ==
    /\ phase = "parsed" /\ cmd = "labels_list"
    /\ GetLabels(URLGen("/api/labels"))
    /\ phase' = "done" /\ exit' = "returned"
    /\ UNCHANGED <<cmd, args>>

\* func (x *labelCreate) Execute(args []string) error
labelCreateExecute ==
    /\ phase = "parsed" /\ cmd = "label_create"
    /\ PostLabelCreate(URLGen("/api/labels"))
    /\ phase' = "done" /\ exit' = "returned"
    /\ UNCHANGED <<cmd, args>>

\* func (x *labelDel) Execute(args []string) error
labelDelExecute ==
    /\ phase = "parsed" /\ cmd = "label_del_by_id"
    /\ DeleteLabel(URLGen("/api/labels"))
    /\ phase' = "done" /\ exit' = "returned"
    /\ UNCHANGED <<cmd, args>>

\* func (x *labelGet) Execute(args []string) error
labelGetExecute ==
    /\ phase = "parsed" /\ cmd = "label_get_by_id"
    /\ GetLabel(URLGen("/api/labels"))
    /\ phase' = "done" /\ exit' = "returned"
    /\ UNCHANGED <<cmd, args>>

\* func (x *labelUpdate) Execute(args []string) error
labelUpdateExecute ==
    /\ phase = "parsed" /\ cmd = "label_update"
    /\ PutLabelUpdate(URLGen("/api/labels"))
    /\ phase' = "done" /\ exit' = "returned"
    /\ UNCHANGED <<cmd, args>>

\* The process ends; the next command starts a new process, whose
\* package-level records are zero again.  The session file stays.
Exit ==
    /\ phase = "done"
    /\ phase' = "start"
    /\ cmd' = ""
    /\ args' = <<>>
    /\ labelslist'  = ZeroRecord(labelsListFlags)
    /\ labelcreate' = ZeroRecord(labelCreateFlags)
    /\ labeldel'    = ZeroRecord(labelDelFlags)
    /\ labelget'    = ZeroRecord(labelGetFlags)
    /\ labelupdate' = ZeroRecord(labelUpdateFlags)
    /\ now' = <<>>
    /\ c' = <<>>
    /\ wire' = <<>>
    /\ out' = <<>>
    /\ exit' = ""
    /\ UNCHANGED cookieFile

\* Outside the label commands: a login stores a session token, a logout or a
\* damaged file leaves none to read.
SessionFileChanges ==
    /\ \E f \in CookieFiles : f # cookieFile /\ cookieFile' = f
    /\ UNCHANGED <<phase, cmd, args, labelslist, labelcreate, labeldel, labelget,
                   labelupdate, now, c, wire, out, exit>>

Next ==
    \/ ParseArgs
    \/ labelsListExecute
    \/ labelCreateExecute
    \/ labelDelExecute
    \/ labelGetExecute
    \/ labelUpdateExecute
    \/ Exit
    \/ SessionFileChanges

Spec == Init /\ [][Next]_vars

----------------------------------------------------------------------------
(* Reading the command line, the output and the requests back.             *)

HasPrefix(s, p) == Len(s) >= Len(p) /\ SubSeq(s, 1, Len(p)) = p

LastOf(seq) == seq[Len(seq)]

\* The text given for a flag, or dflt when the flag is absent.
ArgOr(flag, dflt) == IF args[flag] # <<>> THEN args[flag][1] ELSE dflt

RECURSIVE StripZeros(_)
StripZeros(s) == IF Len(s) > 1 /\ Head(s) = "0" THEN StripZeros(Tail(s)) ELSE s

\* The decimal numeral of the integer a flag text denotes: no "+", no
\* leading zeros, "-" kept for a negative number.
Decimal(text) ==
    LET signed == Head(text) \in {"+", "-"}
        digits == StripZeros(IF signed THEN Tail(text) ELSE text)
    IN  IF Head(text) = "-" /\ digits # "0" THEN "-" \o digits ELSE digits

\* The part of a URL after the registry address.
PathAndQuery(url) == SubSeq(url, Len(URLGen("")) + 1, Len(url))

RECURSIVE AfterLastSlash(_, _)
AfterLastSlash(s, acc) ==
    IF s = "" THEN acc
    ELSE IF Head(s) = "/" THEN AfterLastSlash(Tail(s), "")
    ELSE AfterLastSlash(Tail(s), acc \o Head(s))

\* The final path segment of a URL.
LastSegment(url) == AfterLastSlash(url, "")

\* The handler of this process has run and returned.
Returned == phase = "done" /\ exit = "returned"

LoadFailed == c # <<>> /\ c[1].err # <<>>

LoadSucceeded == c # <<>> /\ c[1].err = <<>>

\* Character i of s, "" past its end.
Ch(s, i) == IF i >= 1 /\ i <= Len(s) THEN SubSeq(s, i, i) ELSE ""

\* The character a \uXXXX escape stands for.
FromHex(h) ==
    CASE h = "003c" -> "<"
      [] h = "003e" -> ">"
      [] h = "0026" -> "&"
      [] OTHER      -> "?"

\* Reads a JSON string literal of s whose first character after the opening
\* quote is at i: val is the string it denotes, next the index after the
\* closing quote.
RECURSIVE ScanString(_, _, _)
ScanString(s, i, acc) ==
    IF i > Len(s) THEN [val |-> acc, next |-> i]
    ELSE IF Ch(s, i) = Quote THEN [val |-> acc, next |-> i + 1]
    ELSE IF Ch(s, i) = Backslash
         THEN IF Ch(s, i + 1) = "u"
              THEN ScanString(s, i + 6, acc \o FromHex(SubSeq(s, i + 2, i + 5)))
              ELSE ScanString(s, i + 2, acc \o Ch(s, i + 1))
    ELSE ScanString(s, i + 1, acc \o Ch(s, i))

\* Reads a number, true or false starting at i, up to the next "," or "}".
RECURSIVE ScanLiteral(_, _, _)
ScanLiteral(s, i, acc) ==
    IF i > Len(s) \/ Ch(s, i) \in {",", "}"} THEN [val |-> acc, next |-> i]
    ELSE ScanLiteral(s, i + 1, acc \o Ch(s, i))

\* Reads the members of a JSON object from the opening quote of a key at i.
RECURSIVE ScanMembers(_, _, _)
ScanMembers(s, i, acc) ==
    LET k      == ScanString(s, i + 1, "")
        isStr  == Ch(s, k.next + 1) = Quote
        v      == IF isStr THEN ScanString(s, k.next + 2, "")
                  ELSE ScanLiteral(s, k.next + 1, "")
        member == [key |-> k.val, string |-> isStr, text |-> v.val]
    IN  IF Ch(s, i) # Quote \/ Ch(s, k.next) # ":" THEN Append(acc, [key |-> "?", string |-> FALSE, text |-> "?"])
        ELSE IF Ch(s, v.next) = "," THEN ScanMembers(s, v.next + 1, Append(acc, member))
        ELSE IF Ch(s, v.next) = "}" /\ v.next = Len(s) THEN Append(acc, member)
        ELSE Append(acc, [key |-> "?", string |-> FALSE, text |-> "?"])

\* The members of the flat JSON object t, in order: each its key, whether
\* its value is a string, and the string or the literal's text.
Unmarshal(t) ==
    IF t = "{}" THEN <<>>
    ELSE IF Ch(t, 1) # "{" THEN <<[key |-> "?", string |-> FALSE, text |-> "?"]>>
    ELSE ScanMembers(t, 2, <<>>)

KeysOf(members) == [i \in DOMAIN members |-> members[i].key]

Str(text) == [string |-> TRUE, text |-> text]

Lit(text) == [string |-> FALSE, text |-> text]

\* The value of the member named key, as Str or Lit.
ValueOf(members, key) ==
    LET m == members[CHOOSE i \in DOMAIN members : members[i].key = key]
    IN  [string |-> m.string, text |-> m.text]

\* The number a run of digits of s denotes.
NumberAt(s, from, to) == DigitsValue(SubSeq(s, from, to), 0)

\* The instant a text in the layout 2006-01-02T15:04:05Z shows, <<>> when
\* the text is not in that layout.
LayoutFields(text) ==
    IF /\ Len(text) = 20
       /\ Ch(text, 5) = "-" /\ Ch(text, 8) = "-" /\ Ch(text, 11) = "T"
       /\ Ch(text, 14) = ":" /\ Ch(text, 17) = ":" /\ Ch(text, 20) = "Z"
       /\ \A i \in {1, 2, 3, 4, 6, 7, 9, 10, 12, 13, 15, 16, 18, 19} : IsDigit(Ch(text, i))
    THEN << NumberAt(text, 1, 4), NumberAt(text, 6, 7), NumberAt(text, 9, 10),
            NumberAt(text, 12, 13), NumberAt(text, 15, 16), NumberAt(text, 18, 19) >>
    ELSE <<>>

\* s cut at every occurrence of the character sep.
RECURSIVE SplitOn(_, _, _, _)
SplitOn(s, sep, cur, acc) ==
    IF s = "" THEN Append(acc, cur)
    ELSE IF Head(s) = sep THEN SplitOn(Tail(s), sep, "", Append(acc, cur))
    ELSE SplitOn(Tail(s), sep, cur \o Head(s), acc)

TrimLeft(s) == IF s # "" /\ Head(s) = " " THEN Tail(s) ELSE s

\* The values a Cookie header value gives the cookie called name.
CookieValues(value, name) ==
    LET parts == SplitOn(value, ";", "", <<>>)
        mine  == SelectSeq(parts, LAMBDA part : HasPrefix(TrimLeft(part), name \o "="))
    IN  [i \in DOMAIN mine |->
            SubSeq(TrimLeft(mine[i]), Len(name) + 2, Len(TrimLeft(mine[i])))]

\* The values of the headers of request r called name.
HeaderValues(r, name) ==
    LET mine == SelectSeq(r.header, LAMBDA h : h[1] = name)
    IN  [i \in DOMAIN mine |-> mine[i][2]]

----------------------------------------------------------------------------
(* The claims.                                                             *)

\* C1: in each of the five handlers, when loading the session token fails the
\* command aborts, an error line is printed and no HTTP request is dispatched
\* in that invocation.
C1_LoadFailureAborts ==
    LoadFailed =>
        /\ Returned
        /\ wire = <<>>
        /\ LastOf(out) = "Error: " \o c[1].err[1]

C1_Witness ==
    /\ LoadFailed
    /\ cmd = "label_update"
    /\ Returned
    /\ wire = <<>>

\* A flag the command requires is absent from the command line.
C2_MissingRequired ==
    \/ cmd = "labels_list" /\ args.scope = <<>>
    \/ cmd \in {"label_create", "label_update"}
          /\ (args.name = <<>> \/ args.description = <<>>)
    \/ cmd \in {"label_del_by_id", "label_get_by_id", "label_update"}
          /\ args.id = <<>>

\* C2: a command whose required flag is missing (scope for labels_list; name
\* or description for label_create and label_update; id for label_del_by_id,
\* label_get_by_id and label_update) ends as a usage error and dispatches no
\* HTTP request.
C2_RequiredFlagsBeforeDispatch ==
    C2_MissingRequired =>
        /\ phase = "done"
        /\ exit = "usage"
        /\ c = <<>>
        /\ wire = <<>>

C2_Witness ==
    /\ cmd = "labels_list"
    /\ args.scope = <<>>
    /\ args.page # <<>>
    /\ exit = "usage"
    /\ wire = <<>>

\* The parameter record of the running command.
C3_Record ==
    CASE cmd = "labels_list"  -> labelslist
      [] cmd = "label_create" -> labelcreate
      [] cmd = "label_update" -> labelupdate

\* C3: every request a list, create or update handler dispatches carries a
\* record whose scope is "g" or "p" and whose project id is not 0 when the
\* scope is "p".
C3_DispatchedScopeValid ==
    (wire # <<>> /\ cmd \in {"labels_list", "label_create", "label_update"}) =>
        /\ C3_Record.Scope \in {"g", "p"}
        /\ C3_Record.Scope = "p" => C3_Record.ProjectID # 0

\* The documented URL of labels_list for the flags of the command line.
C4_Template ==
    "https://localhost/api/labels"
    \o "?scope=" \o args.scope[1]
    \o "&name=" \o ArgOr("name", "")
    \o "&project_id=" \o Decimal(ArgOr("project_id", "0"))
    \o "&page=" \o Decimal(ArgOr("page", "1"))
    \o "&page_size=" \o Decimal(ArgOr("page_size", "10"))

\* C4: for every command line of labels_list that parses, the URL GetLabels
\* requests is baseURL ?scope= &name= &project_id= &page= &page_size= in that
\* order, the integers in decimal, absent flags by their defaults (name empty,
\* project_id 0, page 1, page_size 10); scope=g, page=2, page_size=5 gives
\* .../api/labels?scope=g&name=&project_id=0&page=2&page_size=5.
C4_ListURLMatchesTemplate ==
    (cmd = "labels_list" /\ wire # <<>>) =>
        /\ wire[1].url = C4_Template
        /\ args = [name |-> <<>>, scope |-> <<"g">>, project_id |-> <<>>,
                   page |-> <<"2">>, page_size |-> <<"5">>]
           => wire[1].url =
                "https://localhost/api/labels?scope=g&name=&project_id=0&page=2&page_size=5"

C4_Witness ==
    /\ cmd = "labels_list"
    /\ wire # <<>>
    /\ args.scope = <<"g">>
    /\ args.project_id = <<"007">>
    /\ args.page = <<>>
    /\ wire[1].url = "https://localhost/api/labels?scope=g&name=a&b&project_id=7&page=1&page_size=105"

\* A request body that is one JSON object; a URL ending in the id flag.
C5_IsObjectText(body) ==
    /\ Len(body) = 1
    /\ Head(body[1]) = "{"
    /\ Ch(body[1], Len(body[1])) = "}"
    /\ LET members == Unmarshal(body[1])
       IN  /\ members # <<>>
           /\ \A i \in DOMAIN members : members[i].key # "?"

C5_WithID(url) ==
    /\ PathAndQuery(url) = "/api/labels/" \o LastSegment(url)
    /\ LastSegment(url) = Decimal(args.id[1])

\* C5: each subcommand dispatches the verb and path of the wire contract:
\* labels_list GET /api/labels with a query string, label_create POST
\* /api/labels with a JSON body, label_del_by_id DELETE /api/labels/{id},
\* label_get_by_id GET /api/labels/{id}, label_update PUT /api/labels/{id}
\* with a JSON body; for delete, get-by-id and update the final path segment
\* is the decimal id of the command's own record.
C5_WireContract ==
    \A i \in DOMAIN wire :
        LET r == wire[i]
        IN  /\ HasPrefix(r.url, "https://localhost/")
            /\ CASE cmd = "labels_list" ->
                        /\ r.method = "GET"
                        /\ HasPrefix(PathAndQuery(r.url), "/api/labels?scope=")
                        /\ r.body = <<>>
                 [] cmd = "label_create" ->
                        /\ r.method = "POST"
                        /\ PathAndQuery(r.url) = "/api/labels"
                        /\ C5_IsObjectText(r.body)
                 [] cmd = "label_del_by_id" ->
                        /\ r.method = "DELETE"
                        /\ C5_WithID(r.url)
                        /\ r.body = <<>>
                 [] cmd = "label_get_by_id" ->
                        /\ r.method = "GET"
                        /\ C5_WithID(r.url)
                        /\ r.body = <<>>
                 [] cmd = "label_update" ->
                        /\ r.method = "PUT"
                        /\ C5_WithID(r.url)
                        /\ C5_IsObjectText(r.body)

C5_Witness ==
    /\ cmd = "label_get_by_id"
    /\ args.id = <<"007">>
    /\ wire # <<>>
    /\ wire[1].method = "GET"
    /\ wire[1].url = "https://localhost/api/labels/7"

\* The documented fields of a label and their values for the flags given.
C6_NineFields ==
    <<"id", "name", "description", "color", "scope", "project_id",
      "creation_time", "update_time", "deleted">>

C6_SevenFields ==
    <<"id", "name", "description", "color", "scope", "project_id", "deleted">>

C6_CommonValues(body) ==
    /\ ValueOf(body, "id") = Lit(Decimal(ArgOr("id", "0")))
    /\ ValueOf(body, "name") = Str(args.name[1])
    /\ ValueOf(body, "description") = Str(args.description[1])
    /\ ValueOf(body, "color") = Str(ArgOr("color", "#000000"))
    /\ ValueOf(body, "scope") = Str(ArgOr("scope", "g"))
    /\ ValueOf(body, "project_id") = Lit(Decimal(ArgOr("project_id", "0")))
    /\ ValueOf(body, "deleted") = Lit(IF args.deleted # <<>> THEN "true" ELSE "false")

C6_IsCurrentTime(v) ==
    /\ v.string
    /\ now # <<>>
    /\ LayoutFields(v.text) = now[1]

C6_UnsetTimesAreNow(body) ==
    /\ ArgOr("creation_time", "") = ""
          => C6_IsCurrentTime(ValueOf(body, "creation_time"))
    /\ ArgOr("update_time", "") = ""
          => C6_IsCurrentTime(ValueOf(body, "update_time"))

C7_EveryRequestCarriesSessionCookie ==
    \A i \in DOMAIN wire :
        /\ LoadSucceeded
        /\ c[1].c.BeegosessionID \in SessionTokens
        /\ Len(HeaderValues(wire[i], "Cookie")) = 1
        /\ CookieValues(HeaderValues(wire[i], "Cookie")[1], "beegosessionID")
              = <<c[1].c.BeegosessionID>>

C7_Witness ==
    /\ cmd = "label_update"
    /\ wire # <<>>
    /\ wire[1].header = << <<"Cookie", "harbor-lang=zh-cn; beegosessionID=sid2">>,
                           <<"Content-Type", "application/json">> >>
    /\ cookieFile # <<"sid2">>

\* C8: an invocation dispatches at most one HTTP request, and exactly one
\* when the session load (and the serialization) succeeded; once a request is
\* out, whatever came back, the result has been printed, the handler has
\* returned and the request is not sent again.
C8_OneRequestPerInvocation ==
    /\ Len(wire) <= 1
    /\ Returned => (Len(wire) = 1 <=> LoadSucceeded)
    /\ wire # <<>> =>
          /\ Returned
          /\ HasPrefix(LastOf(out), "<== ")

C8_Witness ==
    /\ cmd = "label_create"
    /\ Returned
    /\ Len(wire) = 1
    /\ LastOf(out) = "<== Error: dial tcp: connection refused"

\* C9: no step of a label command changes the stored session token: parsing,
\* a handler that succeeds or fails, and the exit all leave the session file
\* as it was.
C9_SessionFileReadOnly == [][phase' # phase => cookieFile' = cookieFile]_vars

C9_Witness ==
    /\ cmd = "labels_list"
    /\ Returned
    /\ wire # <<>>
    /\ LoadSucceeded
    /\ cookieFile = <<c[1].c.BeegosessionID>>

\* C10: PostLabelCreate keeps a supplied creation_time and update_time only
\* when both were supplied non-empty; when either is empty both become the
\* same current-time text; so after the handler both are non-empty, whether
\* or not the session load failed, and a dispatched body carries the record's
\* two values.
C10_TimesDefaultTogether ==
    (cmd = "label_create" /\ Returned) =>
        LET ct == ArgOr("creation_time", "")
            ut == ArgOr("update_time", "")
        IN  /\ labelcreate.CreationTime # "" /\ labelcreate.UpdateTime # ""
            /\ (ct # "" /\ ut # "") =>
                  /\ labelcreate.CreationTime = ct
                  /\ labelcreate.UpdateTime = ut
            /\ (ct = "" \/ ut = "") =>
                  /\ now # <<>>
                  /\ LayoutFields(labelcreate.CreationTime) = now[1]
                  /\ labelcreate.UpdateTime = labelcreate.CreationTime
            /\ wire # <<>> =>
                  LET body == Unmarshal(wire[1].body[1])
                  IN  /\ ValueOf(body, "creation_time") = Str(labelcreate.CreationTime)
                      /\ ValueOf(body, "update_time") = Str(labelcreate.UpdateTime)

C10_Witness ==
    /\ cmd = "label_create"
    /\ Returned
    /\ LoadFailed
    /\ args.creation_time = <<"2018-01-01T00:00:00Z">>
    /\ args.update_time = <<>>
    /\ labelcreate.CreationTime = "2026-11-23T15:40:59Z"
    /\ labelcreate.UpdateTime = "2026-11-23T15:40:59Z"

====
